---- MODULE Spec2Model ----
(***************************************************************************)
(* Model of tank.descriptor.bundle_cache_usage.database:                   *)
(* BundleCacheUsageDatabase, the SQLite-backed ledger of bundle usage.     *)
(*                                                                         *)
(* Strings are sequences of one-character strings.  The `bundles` table is *)
(* the sequence of its rows in storage order.  Every call of _execute      *)
(* opens its own connection and commits on leaving it, so one SQL          *)
(* statement is one atomic step; _log_usage is three steps (timestamp,     *)
(* SELECT, then UPDATE or INSERT) that callers sharing the database file   *)
(* may interleave.  SpecSeq runs each call as a whole, one call at a time; *)
(* Spec runs the calls of two callers statement by statement; SpecLife     *)
(* starts before the first construction of the database; SpecPath gives    *)
(* every short path to a call on the empty table.                          *)
(***************************************************************************)
EXTENDS Integers, Sequences, FiniteSets, TLC

VARIABLES
    bundles,    \* rows of table `bundles`, in storage order
    override,   \* os.environ.get("SHOTGUN_BUNDLE_CACHE_USAGE_TIMESTAMP_OVERRIDE")
    clock,      \* int(time.time())
    pc,         \* pc[p]: where caller p stands in its current call
    call,       \* call[p]: [op, path] of the call p is in
    now,        \* now[p]: local now_unix_timestamp of _log_usage
    entry,      \* entry[p]: local entry of _log_usage (<<>> is None)
    last,       \* the call that returned (or raised) last: [op, path, result]
    history,    \* history[k]: the calls completed on key k since its row was created
    root,       \* what the resolver gives and the file system holds at bundle_cache_root
    tables,     \* names of the tables of the database file, in creation order
    db          \* a BundleCacheUsageDatabase has been constructed

vars == <<bundles, override, clock, pc, call, now, entry, last, history,
          root, tables, db>>

----------------------------------------------------------------------------
(* Bounds of the model *)

\* The live clock runs from 0 to MaxTime.
MaxTime == 1

\* No call is started on a key whose stored usage_count has reached MaxCount,
\* or on whose row MaxCount calls have completed.
MaxCount == 2

\* The paths given to _truncate_path one by one are at most MaxLen characters
\* long.
MaxLen == 5

\* The callers sharing the database file: two, the least number that can race.
Procs == {1, 2}

----------------------------------------------------------------------------
(* Strings *)

\* Python's None, for a path or for the unset environment variable.
None == <<"None">>

\* os.sep
Sep == <<"/">>

\* self._bundle_cache_root: the directory "/c"
BundleCacheRoot == <<"/", "c">>

\* Python truthiness of an optional string: None and "" are false.
Truthy(s) == s # None /\ s # <<>>

\* str.startswith
StartsWith(s, prefix) ==
    /\ Len(s) >= Len(prefix)
    /\ SubSeq(s, 1, Len(prefix)) = prefix

\* s.replace(old, ""): every non-overlapping occurrence of old, scanning from
\* the left, is removed.
RECURSIVE RemoveAll(_, _)
RemoveAll(s, old) ==
    IF Len(s) < Len(old) THEN s
    ELSE IF StartsWith(s, old)
         THEN RemoveAll(SubSeq(s, Len(old) + 1, Len(s)), old)
         ELSE <<Head(s)>> \o RemoveAll(Tail(s), old)

\* The paths callers pass in when calls run one at a time.
Paths ==
    { None,                                \* None
      <<>>,                                \* ""
      <<"/", "c", "/", "a">>,              \* /c/a     under the root
      <<"/", "c", "/", "b">>,              \* /c/b     under the root
      <<"/", "c">>,                        \* /c       the root itself
      <<"/", "c", "b">>,                   \* /cb      a sibling of the root
      <<"/", "d", "/", "a">> }             \* /d/a     absolute, elsewhere

\* The characters of the paths given to _truncate_path one by one: the
\* separator, the letter of the root's name and another letter.
Characters == {"/", "c", "a"}

\* Those paths: None, and every string of at most MaxLen of these characters.
AllPaths == {None} \cup UNION { [1..n -> Characters] : n \in 0..MaxLen }

\* The paths two racing callers pass in: both of them name the bundle /c/a.
RacePaths == { None, <<"/", "c", "/", "a">> }

\* The values the environment variable takes; None is unset.
OverrideValues == { None, <<>>, <<"0">>, <<"x">> }

Digits == <<"0", "1", "2", "3", "4", "5", "6", "7", "8", "9">>

IsDigit(c) == \E i \in 1..Len(Digits) : Digits[i] = c

DigitValue(c) == (CHOOSE i \in 1..Len(Digits) : Digits[i] = c) - 1

\* int(s) succeeds on a non-empty string of decimal digits.
IsNumeric(s) == s # <<>> /\ \A i \in 1..Len(s) : IsDigit(s[i])

\* int(s) for such a string.
RECURSIVE ParseInt(_)
ParseInt(s) ==
    IF s = <<>> THEN 0
    ELSE 10 * ParseInt(SubSeq(s, 1, Len(s) - 1)) + DigitValue(s[Len(s)])

----------------------------------------------------------------------------
(* BundleCacheUsageDatabase: helpers *)

\* _truncate_path without its startswith test: whatever is left of the path
\* once the root is cut out of it.
TruncatePath_NoPrefixTest(bundle_path) ==
    IF ~Truthy(bundle_path)
    THEN None
    ELSE LET truncated_path == RemoveAll(bundle_path, BundleCacheRoot)
         IN  IF StartsWith(truncated_path, Sep)
             THEN SubSeq(truncated_path, Len(Sep) + 1, Len(truncated_path))
             ELSE truncated_path

\* _truncate_path
TruncatePath(bundle_path) ==
    IF ~Truthy(bundle_path) \/ ~StartsWith(bundle_path, BundleCacheRoot)
    THEN None
    ELSE LET truncated_path == RemoveAll(bundle_path, BundleCacheRoot)
         IN  IF StartsWith(truncated_path, Sep)
             THEN SubSeq(truncated_path, Len(Sep) + 1, Len(truncated_path))
             ELSE truncated_path

\* The test of line 240 asking for more than one character.
OverrideSet_LongerThanOne(timestamp_override) ==
    Truthy(timestamp_override) /\ Len(timestamp_override) > 1

\* Line 240: timestamp_override and len(timestamp_override)
OverrideSet(timestamp_override) ==
    Truthy(timestamp_override) /\ Len(timestamp_override) # 0

\* _get_timestamp raises ValueError: the override is set, non-empty and int()
\* cannot convert it.
TimestampRaises(timestamp_override) ==
    OverrideSet(timestamp_override) /\ ~IsNumeric(timestamp_override)

\* _get_timestamp never looking at the override.
GetTimestamp_LiveClock(timestamp_override, time) == time

\* _get_timestamp
GetTimestamp(timestamp_override, time) ==
    IF OverrideSet(timestamp_override) THEN ParseInt(timestamp_override) ELSE time

\* A row of the table, in column order.
Row(path, creation, last_usage, usage_count) ==
    [path |-> path, creation |-> creation,
     last_usage |-> last_usage, usage_count |-> usage_count]

\* SELECT * FROM bundles WHERE path = ?
SelectWherePath(table, bundle_path) ==
    SelectSeq(table, LAMBDA r : r.path = bundle_path)

\* The database column indexes.
DB_COL_INDEX_PATH == 0

DB_COL_INDEX_CREATION_TIMESTAMP == 1

DB_COL_INDEX_LAST_USAGE_TIMESTAMP == 2

DB_COL_INDEX_USAGE_COUNT == 3

\* The tuple SELECT * returns for a row: its columns in the order the table
\* was created with.
DbRecord(row) ==
    [i \in 0..3 |->
        CASE i = 0 -> row.path
          [] i = 1 -> row.creation
          [] i = 2 -> row.last_usage
          [] i = 3 -> row.usage_count]

\* An entry reading creation_time and last_usage_time from each other's column.
BundleCacheUsageDatabaseEntry_ColumnsSwapped(db_record) ==
    [path |-> db_record[DB_COL_INDEX_PATH],
     creation |-> db_record[DB_COL_INDEX_LAST_USAGE_TIMESTAMP],
     last_usage |-> db_record[DB_COL_INDEX_CREATION_TIMESTAMP],
     usage_count |-> db_record[DB_COL_INDEX_USAGE_COUNT]]

\* BundleCacheUsageDatabaseEntry.__init__: path, creation_time, last_usage_time
\* and usage_count, named here as the columns they are read from.
BundleCacheUsageDatabaseEntry(db_record) ==
    [path |-> db_record[DB_COL_INDEX_PATH],
     creation |-> db_record[DB_COL_INDEX_CREATION_TIMESTAMP],
     last_usage |-> db_record[DB_COL_INDEX_LAST_USAGE_TIMESTAMP],
     usage_count |-> db_record[DB_COL_INDEX_USAGE_COUNT]]

\* _find_entry: the entry of fetchone() of that SELECT; <<>> is None.
FindEntry(table, bundle_path) ==
    LET rows == SelectWherePath(table, bundle_path)
    IN  IF rows = <<>> THEN <<>>
        ELSE <<BundleCacheUsageDatabaseEntry(DbRecord(rows[1]))>>

\* A path column that is neither UNIQUE nor the PRIMARY KEY.
UniqueViolation_NotEnforced(table, bundle_path) == FALSE

\* path text NOT NULL UNIQUE PRIMARY KEY: an INSERT of a path the table holds
\* fails with sqlite3.IntegrityError.
UniqueViolation(table, bundle_path) ==
    \E i \in 1..Len(table) : table[i].path = bundle_path

\* The INSERT with its last two values in the wrong order.
InsertRow_ValuesSwapped(table, path, timestamp, initial_usage_count) ==
    Append(table, Row(path, timestamp, initial_usage_count, timestamp))

\* INSERT INTO bundles(path, creation, last_usage, usage_count) VALUES(?,?,?,?)
InsertRow(table, path, timestamp, initial_usage_count) ==
    Append(table, Row(path, timestamp, timestamp, initial_usage_count))

\* The UPDATE setting creation as well.
UpdateRow_SetsCreation(table, timestamp, usage_count, path) ==
    [i \in 1..Len(table) |->
        IF table[i].path = path
        THEN [table[i] EXCEPT !.creation = timestamp, !.last_usage = timestamp,
                              !.usage_count = usage_count]
        ELSE table[i]]

\* The UPDATE without its WHERE clause.
UpdateRow_NoWhere(table, timestamp, usage_count, path) ==
    [i \in 1..Len(table) |->
        [table[i] EXCEPT !.last_usage = timestamp, !.usage_count = usage_count]]

\* UPDATE bundles SET last_usage = ?, usage_count = ? WHERE path = ?
UpdateRow(table, timestamp, usage_count, path) ==
    [i \in 1..Len(table) |->
        IF table[i].path = path
        THEN [table[i] EXCEPT !.last_usage = timestamp, !.usage_count = usage_count]
        ELSE table[i]]

\* The DELETE without its WHERE clause.
DeleteWherePath_NoWhere(table, path) == <<>>

\* DELETE FROM bundles WHERE path = ?
DeleteWherePath(table, path) ==
    SelectSeq(table, LAMBDA r : r.path # path)

\* get_bundle: <<>> is None.
GetBundle(table, bundle_path) ==
    LET truncated_path == TruncatePath(bundle_path)
    IN  IF Truthy(truncated_path) THEN FindEntry(table, truncated_path) ELSE <<>>

\* get_bundle_count: SELECT COUNT(*) FROM bundles
GetBundleCount(table) == Len(table)

\* The entries of a sequence of rows, as fetchall() and the loop of
\* get_unused_bundles build them.
RECURSIVE EntryList(_)
EntryList(rows) ==
    IF rows = <<>> THEN <<>>
    ELSE <<BundleCacheUsageDatabaseEntry(DbRecord(Head(rows)))>>
            \o EntryList(Tail(rows))

\* get_unused_bundles with fetchone() in the place of fetchall(): the first
\* record only.
GetUnusedBundles_FetchOne(table, since_timestamps) ==
    LET rows == SelectSeq(table, LAMBDA r : r.last_usage <= since_timestamps)
    IN  IF rows = <<>> THEN <<>> ELSE EntryList(<<rows[1]>>)

\* get_unused_bundles with WHERE last_usage < ?
GetUnusedBundles_Before(table, since_timestamps) ==
    EntryList(SelectSeq(table, LAMBDA r : r.last_usage < since_timestamps))

\* get_unused_bundles: SELECT * FROM bundles WHERE last_usage <= ?
GetUnusedBundles(table, since_timestamps) ==
    EntryList(SelectSeq(table, LAMBDA r : r.last_usage <= since_timestamps))

\* add_unused_bundle passing 1 on, as log_usage does.
InitialUsageCount_AlwaysOne(op) == 1

\* The initial_usage_count that log_usage and add_unused_bundle pass on.
InitialUsageCount(op) == IF op = "log_usage" THEN 1 ELSE 0

----------------------------------------------------------------------------
(* Construction *)

\* What stands at the place of bundle_cache_root: the resolver gives no path
\* ("unset"), or it gives one and nothing, a file or a directory is there.
RootStates == {"unset", "missing", "file", "dir"}

\* CREATE TABLE bundles, without IF NOT EXISTS: sqlite3.OperationalError when
\* the table is there.
CreateMainTable_NoIfNotExists(names) ==
    IF \E i \in 1..Len(names) : names[i] = "bundles"
    THEN [tables |-> names, result |-> "OperationalError"]
    ELSE [tables |-> Append(names, "bundles"), result |-> "ok"]

\* _create_main_table: CREATE TABLE IF NOT EXISTS bundles (...)
CreateMainTable(names) ==
    IF \E i \in 1..Len(names) : names[i] = "bundles"
    THEN [tables |-> names, result |-> "ok"]
    ELSE [tables |-> Append(names, "bundles"), result |-> "ok"]

\* How __init__ ends before it creates the table.  os.path.join is applied to
\* what the resolver gives before line 135 tests for None: on None it raises
\* TypeError (AttributeError under Python 2), and it never returns None.
InitRaises(root_state) ==
    CASE root_state = "unset" -> "TypeError"
      [] root_state = "missing" -> "BundleCacheUsageInvalidBundleCacheRootError"
      [] root_state = "file" -> "BundleCacheUsageInvalidBundleCacheRootError"
      [] root_state = "dir" -> "ok"

----------------------------------------------------------------------------
(* State *)

\* The keys a call can store.
Keys == { TruncatePath(p) : p \in { q \in Paths : Truthy(TruncatePath(q)) } }

\* The paths of the entries handed to delete_entry: the key of a path, or
\* the path of an entry the table never held.
EntryPaths(paths) ==
    { TruncatePath(p) : p \in { q \in paths : Truthy(TruncatePath(q)) } }
        \cup { <<"z">> }

\* No call completed on the key since its row was (last) created.
NoHistory == [n |-> 0, t1 |-> 0, tN |-> 0, init |-> 0, allAccess |-> TRUE]

NoCall == [op |-> "none", path |-> None]

Init ==
    /\ bundles = <<>>
    /\ override = None
    /\ clock = 0
    /\ pc = [p \in Procs |-> "idle"]
    /\ call = [p \in Procs |-> NoCall]
    /\ now = [p \in Procs |-> 0]
    /\ entry = [p \in Procs |-> <<>>]
    /\ last = [op |-> "none", path |-> None, result |-> "none"]
    /\ history = [k \in Keys |-> NoHistory]
    /\ root = "dir"
    /\ tables = CreateMainTable(<<>>).tables
    /\ db = TRUE

----------------------------------------------------------------------------
(* The environment *)

\* time.time() advances.
Tick ==
    /\ clock < MaxTime
    /\ clock' = clock + 1
    /\ UNCHANGED <<bundles, override, pc, call, now, entry, last, history>>
    /\ UNCHANGED <<root, tables, db>>

\* The environment variable is set, emptied or unset.
SetOverride ==
    /\ \E v \in OverrideValues : override' = v
    /\ UNCHANGED <<bundles, clock, pc, call, now, entry, last, history>>
    /\ UNCHANGED <<root, tables, db>>

----------------------------------------------------------------------------
(* _log_usage, entered through log_usage or add_unused_bundle *)

\* No call is started on a key whose stored usage_count has reached MaxCount,
\* or on whose row MaxCount calls have completed.
BelowMaxCount(truncated_path) ==
    /\ \A i \in 1..Len(bundles) :
          bundles[i].path = truncated_path => bundles[i].usage_count < MaxCount
    /\ truncated_path \in Keys => history[truncated_path].n < MaxCount

\* The UPDATE adding initial_usage_count, not 1, to the usage count.
LogUsageWritten_AddsInitialCount(table, found, truncated_path, timestamp, initial_usage_count) ==
    IF found # <<>>
    THEN [bundles |-> UpdateRow(table, timestamp,
                                found[1].usage_count + initial_usage_count,
                                found[1].path),
          result |-> "ok"]
    ELSE IF UniqueViolation(table, truncated_path)
    THEN [bundles |-> table, result |-> "IntegrityError"]
    ELSE [bundles |-> InsertRow(table, truncated_path, timestamp,
                                initial_usage_count),
          result |-> "ok"]

\* INSERT OR REPLACE in the place of the UPDATE: the row found is written
\* anew.
LogUsageWritten_Replaces(table, found, truncated_path, timestamp, initial_usage_count) ==
    IF found # <<>>
    THEN [bundles |-> InsertRow(DeleteWherePath(table, found[1].path),
                                found[1].path, timestamp,
                                found[1].usage_count + 1),
          result |-> "ok"]
    ELSE IF UniqueViolation(table, truncated_path)
    THEN [bundles |-> table, result |-> "IntegrityError"]
    ELSE [bundles |-> InsertRow(table, truncated_path, timestamp,
                                initial_usage_count),
          result |-> "ok"]

\* Lines 260-284: the table after UPDATE of the entry found, or INSERT of a
\* new one, and how the statement ends.
LogUsageWritten(table, found, truncated_path, timestamp, initial_usage_count) ==
    IF found # <<>>
    THEN [bundles |-> UpdateRow(table, timestamp, found[1].usage_count + 1,
                                found[1].path),
          result |-> "ok"]
    ELSE IF UniqueViolation(table, truncated_path)
    THEN [bundles |-> table, result |-> "IntegrityError"]
    ELSE [bundles |-> InsertRow(table, truncated_path, timestamp,
                                initial_usage_count),
          result |-> "ok"]

\* The history of the key once that statement of a call of op is done: an
\* INSERT that succeeded starts it, an UPDATE that matched a row extends it.
Recorded(h, table, found, truncated_path, op, timestamp) ==
    IF found # <<>>
    THEN IF SelectWherePath(table, found[1].path) # <<>>
         THEN [h EXCEPT !.n = @ + 1, !.tN = timestamp,
                        !.allAccess = @ /\ (op = "log_usage")]
         ELSE h
    ELSE IF SelectWherePath(table, truncated_path) # <<>>
         THEN h
         ELSE [n |-> 1, t1 |-> timestamp, tN |-> timestamp,
               init |-> InitialUsageCount(op), allAccess |-> (op = "log_usage")]

\* _log_usage writing at the live clock before it converts the override: the
\* row is written when ValueError is raised.
LogUsageCall_WritesBeforeTimestamp(op, bundle_path) ==
    LET truncated_path == TruncatePath(bundle_path) IN
    /\ BelowMaxCount(truncated_path)
    /\ IF ~Truthy(truncated_path)
       THEN /\ last' = [op |-> op, path |-> bundle_path, result |-> "ok"]
            /\ UNCHANGED <<bundles, history>>
       ELSE LET raises == TimestampRaises(override)
                found == FindEntry(bundles, truncated_path)
                written == LogUsageWritten(bundles, found, truncated_path, clock,
                                           InitialUsageCount(op))
            IN  /\ bundles' = written.bundles
                /\ last' = [op |-> op, path |-> bundle_path,
                            result |-> IF raises THEN "ValueError"
                                       ELSE written.result]
                /\ history' = [history EXCEPT ![truncated_path] =
                                  Recorded(@, bundles, found, truncated_path, op,
                                           clock)]
    /\ UNCHANGED <<override, clock, pc, call, now, entry, root, tables, db>>

\* _log_usage as a whole, lines 254-284, no other call in between.
LogUsageCall(op, bundle_path) ==
    LET truncated_path == TruncatePath(bundle_path) IN
    /\ BelowMaxCount(truncated_path)
    /\ IF ~Truthy(truncated_path)
       THEN /\ last' = [op |-> op, path |-> bundle_path, result |-> "ok"]
            /\ UNCHANGED <<bundles, history>>
       ELSE IF TimestampRaises(override)
       THEN /\ last' = [op |-> op, path |-> bundle_path, result |-> "ValueError"]
            /\ UNCHANGED <<bundles, history>>
       ELSE LET now_unix_timestamp == GetTimestamp(override, clock)
                found == FindEntry(bundles, truncated_path)
                written == LogUsageWritten(bundles, found, truncated_path,
                                           now_unix_timestamp, InitialUsageCount(op))
            IN  /\ bundles' = written.bundles
                /\ last' = [op |-> op, path |-> bundle_path,
                            result |-> written.result]
                /\ history' = [history EXCEPT ![truncated_path] =
                                  Recorded(@, bundles, found, truncated_path, op,
                                           now_unix_timestamp)]
    /\ UNCHANGED <<override, clock, pc, call, now, entry, root, tables, db>>

\* log_usage, one call at a time
LogUsageSeq == \E bundle_path \in Paths : LogUsageCall("log_usage", bundle_path)

\* add_unused_bundle, one call at a time
AddUnusedBundleSeq ==
    \E bundle_path \in Paths : LogUsageCall("add_unused_bundle", bundle_path)

\* Caller p's call of op on path returns, or raises: its locals are gone.
Return(p, op, path, outcome) ==
    /\ pc' = [pc EXCEPT ![p] = "idle"]
    /\ call' = [call EXCEPT ![p] = NoCall]
    /\ now' = [now EXCEPT ![p] = 0]
    /\ entry' = [entry EXCEPT ![p] = <<>>]
    /\ last' = [op |-> op, path |-> path, result |-> outcome]

\* Lines 254-257: truncate the path, return if nothing is left, else read
\* the timestamp.
LogUsageBegin(p, op, bundle_path) ==
    LET truncated_path == TruncatePath(bundle_path) IN
    /\ pc[p] = "idle"
    /\ BelowMaxCount(truncated_path)
    /\ IF ~Truthy(truncated_path)
       THEN Return(p, op, bundle_path, "ok")
       ELSE IF TimestampRaises(override)
       THEN Return(p, op, bundle_path, "ValueError")
       ELSE /\ now' = [now EXCEPT ![p] = GetTimestamp(override, clock)]
            /\ pc' = [pc EXCEPT ![p] = "find"]
            /\ call' = [call EXCEPT ![p] = [op |-> op, path |-> bundle_path]]
            /\ UNCHANGED <<entry, last>>
    /\ UNCHANGED <<bundles, override, clock, history, root, tables, db>>

\* log_usage
LogUsage(p) ==
    \E bundle_path \in RacePaths : LogUsageBegin(p, "log_usage", bundle_path)

\* add_unused_bundle
AddUnusedBundle(p) ==
    \E bundle_path \in RacePaths : LogUsageBegin(p, "add_unused_bundle", bundle_path)

\* The fields of the entry found that _log_usage goes on to read: path and
\* usage_count.
EntryRead(found) ==
    IF found = <<>> THEN <<>>
    ELSE <<[path |-> found[1].path, usage_count |-> found[1].usage_count]>>

\* Line 259: entry = self._find_entry(truncated_path)
LogUsageFind(p) ==
    /\ pc[p] = "find"
    /\ BelowMaxCount(TruncatePath(call[p].path))
    /\ entry' = [entry EXCEPT ![p] =
                    EntryRead(FindEntry(bundles, TruncatePath(call[p].path)))]
    /\ pc' = [pc EXCEPT ![p] = "write"]
    /\ UNCHANGED <<bundles, override, clock, call, now, last, history>>
    /\ UNCHANGED <<root, tables, db>>

\* Lines 260-284: UPDATE the entry found, or INSERT a new one.
LogUsageWrite(p) ==
    LET truncated_path == TruncatePath(call[p].path)
        written == LogUsageWritten(bundles, entry[p], truncated_path, now[p],
                                   InitialUsageCount(call[p].op))
    IN
    /\ pc[p] = "write"
    /\ bundles' = written.bundles
    /\ history' = [history EXCEPT ![truncated_path] =
                      Recorded(@, bundles, entry[p], truncated_path, call[p].op,
                               now[p])]
    /\ Return(p, call[p].op, call[p].path, written.result)
    /\ UNCHANGED <<override, clock, root, tables, db>>

----------------------------------------------------------------------------
(* delete_entry *)

DeleteEntryCall(path) ==
    /\ bundles' = DeleteWherePath(bundles, path)
    /\ history' = [k \in Keys |-> IF k = path THEN NoHistory ELSE history[k]]
    /\ last' = [op |-> "delete_entry", path |-> path, result |-> "ok"]
    /\ UNCHANGED <<override, clock, root, tables, db>>

\* delete_entry, one call at a time
DeleteEntrySeq ==
    \E path \in EntryPaths(Paths) :
        /\ DeleteEntryCall(path)
        /\ UNCHANGED <<pc, call, now, entry>>

\* delete_entry by caller p
DeleteEntry(p) ==
    \E path \in EntryPaths(RacePaths) :
        /\ pc[p] = "idle"
        /\ DeleteEntryCall(path)
        /\ UNCHANGED <<pc, call, now, entry>>

----------------------------------------------------------------------------
(* Specifications *)

\* Two callers interleave the statements of their calls freely.
Next ==
    \/ Tick
    \/ SetOverride
    \/ \E p \in Procs : LogUsage(p)
    \/ \E p \in Procs : AddUnusedBundle(p)
    \/ \E p \in Procs : LogUsageFind(p)
    \/ \E p \in Procs : LogUsageWrite(p)
    \/ \E p \in Procs : DeleteEntry(p)

Spec == Init /\ [][Next]_vars

\* One call at a time, each run as a whole.
NextSeq ==
    \/ Tick
    \/ SetOverride
    \/ LogUsageSeq
    \/ AddUnusedBundleSeq
    \/ DeleteEntrySeq

SpecSeq == Init /\ [][NextSeq]_vars

\* Before the first construction: no database file, no instance.
InitLife ==
    /\ bundles = <<>>
    /\ override = None
    /\ clock = 0
    /\ pc = [p \in Procs |-> "idle"]
    /\ call = [p \in Procs |-> NoCall]
    /\ now = [p \in Procs |-> 0]
    /\ entry = [p \in Procs |-> <<>>]
    /\ last = [op |-> "none", path |-> None, result |-> "none"]
    /\ history = [k \in Keys |-> NoHistory]
    /\ root \in RootStates
    /\ tables = <<>>
    /\ db = FALSE

\* BundleCacheUsageDatabase()
Construct ==
    LET raised == InitRaises(root)
        created == CreateMainTable(tables)
    IN
    /\ IF raised # "ok"
       THEN /\ last' = [op |-> "__init__", path |-> None, result |-> raised]
            /\ UNCHANGED <<tables, db>>
       ELSE /\ tables' = created.tables
            /\ db' = (db \/ created.result = "ok")
            /\ last' = [op |-> "__init__", path |-> None,
                        result |-> created.result]
    /\ UNCHANGED <<bundles, override, clock, pc, call, now, entry, history, root>>

\* log_usage on the instance constructed
LogUsageLife ==
    /\ db
    /\ \E bundle_path \in RacePaths : LogUsageCall("log_usage", bundle_path)

\* add_unused_bundle on the instance constructed
AddUnusedBundleLife ==
    /\ db
    /\ \E bundle_path \in RacePaths : LogUsageCall("add_unused_bundle", bundle_path)

\* delete_entry on the instance constructed
DeleteEntryLife ==
    /\ db
    /\ \E path \in EntryPaths(RacePaths) :
          /\ DeleteEntryCall(path)
          /\ UNCHANGED <<pc, call, now, entry>>

\* get_bundle taking the entry out of the table as it returns it.
GetBundleCalled_Pops(table, bundle_path) ==
    [bundles |-> IF Truthy(TruncatePath(bundle_path))
                 THEN DeleteWherePath(table, TruncatePath(bundle_path))
                 ELSE table,
     result |-> GetBundle(table, bundle_path)]

\* get_bundle: the table after the call, and what the call returns.  Its one
\* statement is the SELECT of _find_entry.
GetBundleCalled(table, bundle_path) ==
    [bundles |-> table, result |-> GetBundle(table, bundle_path)]

\* get_bundle on the instance constructed
GetBundleLife ==
    /\ db
    /\ \E bundle_path \in RacePaths :
          /\ bundles' = GetBundleCalled(bundles, bundle_path).bundles
          /\ last' = [op |-> "get_bundle", path |-> bundle_path, result |-> "ok"]
    /\ UNCHANGED <<override, clock, pc, call, now, entry, history>>
    /\ UNCHANGED <<root, tables, db>>

\* get_bundle_count on the instance constructed: one SELECT COUNT(*)
GetBundleCountLife ==
    /\ db
    /\ last' = [op |-> "get_bundle_count", path |-> None, result |-> "ok"]
    /\ UNCHANGED <<bundles, override, clock, pc, call, now, entry, history>>
    /\ UNCHANGED <<root, tables, db>>

\* get_unused_bundles on the instance constructed: one SELECT
GetUnusedBundlesLife ==
    /\ db
    /\ last' = [op |-> "get_unused_bundles", path |-> None, result |-> "ok"]
    /\ UNCHANGED <<bundles, override, clock, pc, call, now, entry, history>>
    /\ UNCHANGED <<root, tables, db>>

\* Construction, and one call at a time once an instance is there.
NextLife ==
    \/ Tick
    \/ SetOverride
    \/ Construct
    \/ LogUsageLife
    \/ AddUnusedBundleLife
    \/ DeleteEntryLife
    \/ GetBundleLife
    \/ GetBundleCountLife
    \/ GetUnusedBundlesLife

SpecLife == InitLife /\ [][NextLife]_vars

\* _log_usage as a whole, lines 254-284, on the empty table.
LogUsagePathCall(op, bundle_path) ==
    LET truncated_path == TruncatePath(bundle_path) IN
    /\ bundles = <<>>
    /\ IF ~Truthy(truncated_path)
       THEN /\ last' = [op |-> op, path |-> bundle_path, result |-> "ok"]
            /\ UNCHANGED bundles
       ELSE IF TimestampRaises(override)
       THEN /\ last' = [op |-> op, path |-> bundle_path, result |-> "ValueError"]
            /\ UNCHANGED bundles
       ELSE LET written == LogUsageWritten(bundles,
                                           FindEntry(bundles, truncated_path),
                                           truncated_path,
                                           GetTimestamp(override, clock),
                                           InitialUsageCount(op))
            IN  /\ bundles' = written.bundles
                /\ last' = [op |-> op, path |-> bundle_path,
                            result |-> written.result]
    /\ UNCHANGED <<override, clock, pc, call, now, entry, history>>
    /\ UNCHANGED <<root, tables, db>>

\* log_usage of any short path
LogUsagePath ==
    \E bundle_path \in AllPaths : LogUsagePathCall("log_usage", bundle_path)

\* add_unused_bundle of any short path
AddUnusedBundlePath ==
    \E bundle_path \in AllPaths : LogUsagePathCall("add_unused_bundle", bundle_path)

\* delete_entry of the entry in the table
DeleteEntryPath ==
    /\ bundles # <<>>
    /\ DeleteEntryCall(bundles[1].path)
    /\ UNCHANGED <<pc, call, now, entry>>

\* Every short path, each given to a call on the empty table.
NextPath ==
    \/ LogUsagePath
    \/ AddUnusedBundlePath
    \/ DeleteEntryPath

SpecPath == Init /\ [][NextPath]_vars

----------------------------------------------------------------------------
(* Notions the properties are stated in *)

\* A path under the cache root: the root, a separator, and a relative path
\* that is not empty and does not start with a separator.
UnderRoot(path) ==
    /\ path # None
    /\ Len(path) > Len(BundleCacheRoot) + Len(Sep)
    /\ SubSeq(path, 1, Len(BundleCacheRoot)) = BundleCacheRoot
    /\ SubSeq(path, Len(BundleCacheRoot) + 1, Len(BundleCacheRoot) + Len(Sep)) = Sep
    /\ path[Len(BundleCacheRoot) + Len(Sep) + 1] # Sep[1]

\* The clock can be read: the override is unset, empty or a number.
ClockValid == override \in {None, <<>>} \/ IsNumeric(override)

\* The table holds a row under the key.
Present(table, key) == \E i \in 1..Len(table) : table[i].path = key

\* The table's first row under the key.
RowOf(table, key) == table[CHOOSE i \in 1..Len(table) : table[i].path = key]

LogOps == {"log_usage", "add_unused_bundle"}

----------------------------------------------------------------------------
(* Properties of calls run one at a time (SpecSeq) *)

\* The step is a call of op, run as a whole, and `last` names the call.
CallOf(op) ==
    /\ last'.op = op
    /\ last'.path \in Paths
    /\ LogUsageCall(op, last'.path)

\* C1: a log_usage call at clock value t, on a path under the cache root whose
\* key the table does not hold, appends exactly one row, with creation =
\* last_usage = t and usage_count = 1; get_bundle_count grows by exactly 1 and
\* get_bundle of the path returns that row.
C1_LogUsageCreatesEntry ==
    [][LET path == last'.path IN
         ( /\ UnderRoot(path)
           /\ ClockValid
           /\ ~Present(bundles, TruncatePath(path))
           /\ CallOf("log_usage") )
         => LET t == GetTimestamp(override, clock)
                added == bundles'[Len(bundles')]
            IN  /\ GetBundleCount(bundles') = GetBundleCount(bundles) + 1
                /\ SubSeq(bundles', 1, Len(bundles)) = bundles
                /\ added.creation = t
                /\ added.last_usage = t
                /\ added.usage_count = 1
                /\ GetBundle(bundles', path) = <<added>>
                /\ last'.result = "ok"]_vars

\* C1, its case: the last call was a log_usage on a path under the root that
\* created the row of its key.
C1_Witness ==
    /\ last.op = "log_usage"
    /\ last.result = "ok"
    /\ UnderRoot(last.path)
    /\ history[TruncatePath(last.path)].n = 1
    /\ Len(bundles) = 2
    /\ RowOf(bundles, TruncatePath(last.path)).usage_count = 1
    /\ RowOf(bundles, TruncatePath(last.path)).creation = 1

\* C2: after N >= 1 log_usage calls on a key that was absent, made at clock
\* values t1..tN, the table holds a single row under the key, with
\* usage_count = N, last_usage = tN and creation = t1.
C2_NthLogUsage ==
    \A k \in Keys :
        (history[k].n >= 1 /\ history[k].allAccess)
        => LET rows == SelectWherePath(bundles, k)
           IN  /\ Len(rows) = 1
               /\ rows[1].usage_count = history[k].n
               /\ rows[1].last_usage = history[k].tN
               /\ rows[1].creation = history[k].t1

\* C2, its case: MaxCount log_usage calls on a key, the first and the last at
\* different clock values.
C2_Witness ==
    \E k \in Keys :
        /\ history[k].allAccess
        /\ history[k].n = MaxCount
        /\ history[k].t1 # history[k].tN
        /\ Present(bundles, k)

\* C3: add_unused_bundle on a path under the root whose key the table does not
\* hold appends a row with usage_count = 0 and creation = last_usage = now;
\* one log_usage call on the same key after it leaves usage_count = 1, not 2.
C3_UnusedThenLogUsage ==
    [][LET path == last'.path
           key == TruncatePath(path)
           t == GetTimestamp(override, clock)
       IN  /\ ( /\ UnderRoot(path)
                /\ ClockValid
                /\ ~Present(bundles, key)
                /\ CallOf("add_unused_bundle") )
              => /\ Len(bundles') = Len(bundles) + 1
                 /\ SubSeq(bundles', 1, Len(bundles)) = bundles
                 /\ GetBundle(bundles', path) = <<Row(key, t, t, 0)>>
           /\ ( /\ UnderRoot(path)
                /\ ClockValid
                /\ history[key].n = 1
                /\ history[key].init = 0
                /\ CallOf("log_usage") )
              => /\ Len(SelectWherePath(bundles', key)) = 1
                 /\ RowOf(bundles', key).usage_count = 1]_vars

\* C3, its case: the last call was the one log_usage call made on a key since
\* add_unused_bundle created its row.
C3_Witness ==
    /\ last.op = "log_usage"
    /\ last.result = "ok"
    /\ UnderRoot(last.path)
    /\ history[TruncatePath(last.path)].init = 0
    /\ history[TruncatePath(last.path)].n = 2
    /\ RowOf(bundles, TruncatePath(last.path)).usage_count = 1

\* C4: add_unused_bundle on a key the table holds does what log_usage does:
\* the row's usage_count becomes the value it had plus 1 (never 0), its
\* last_usage becomes now, and its creation and every other row stay as they
\* were.
C4_UnusedOnExistingKey ==
    [][LET path == last'.path
           key == TruncatePath(path)
           t == GetTimestamp(override, clock)
       IN  ( /\ Truthy(key)
             /\ ClockValid
             /\ Present(bundles, key)
             /\ CallOf("add_unused_bundle") )
           => /\ Len(bundles') = Len(bundles)
              /\ \A i \in 1..Len(bundles) :
                    IF bundles[i].path = key
                    THEN /\ bundles'[i].path = key
                         /\ bundles'[i].usage_count = bundles[i].usage_count + 1
                         /\ bundles'[i].usage_count # 0
                         /\ bundles'[i].last_usage = t
                         /\ bundles'[i].creation = bundles[i].creation
                    ELSE bundles'[i] = bundles[i]
              /\ last'.result = "ok"]_vars

\* C4, its case: the last call was an add_unused_bundle that found the row of
\* its key, created at another clock value, and updated it.
C4_Witness ==
    /\ last.op = "add_unused_bundle"
    /\ last.result = "ok"
    /\ Truthy(TruncatePath(last.path))
    /\ history[TruncatePath(last.path)].n = 2
    /\ RowOf(bundles, TruncatePath(last.path)).usage_count = 2
    /\ RowOf(bundles, TruncatePath(last.path)).creation
          # RowOf(bundles, TruncatePath(last.path)).last_usage

\* C5: log_usage and add_unused_bundle on a path that is None, empty, or does
\* not begin with the cache root return normally and leave the table as it
\* was, whatever the override is.
C5_InvalidPathNoOp ==
    [][LET path == last'.path IN
         ( /\ (path = None \/ path = <<>> \/ ~StartsWith(path, BundleCacheRoot))
           /\ (CallOf("log_usage") \/ CallOf("add_unused_bundle")) )
         => /\ bundles' = bundles
            /\ last'.result = "ok"]_vars

\* C5, its case: the last call was made on such a path, with rows in the table
\* and an override that cannot be converted.
C5_Witness ==
    /\ last.op \in LogOps
    /\ last.path \in {None, <<>>, <<"/", "d", "/", "a">>}
    /\ last.result = "ok"
    /\ Len(bundles) = 2
    /\ ~ClockValid

\* C6: a log_usage call on a path that is not under the cache root (a sibling
\* directory whose name extends the root's included) leaves get_bundle_count
\* as it was, and get_bundle of that path returns None after it.
C6_OutsideRootNeverStored ==
    [][LET path == last'.path IN
         (~UnderRoot(path) /\ CallOf("log_usage"))
         => /\ GetBundleCount(bundles') = GetBundleCount(bundles)
            /\ GetBundle(bundles', path) = <<>>]_vars

\* C7: every row has creation <= last_usage.
C7_CreationBeforeLastUsage ==
    \A i \in 1..Len(bundles) : bundles[i].creation <= bundles[i].last_usage

----------------------------------------------------------------------------
(* Properties of two callers interleaving (Spec) *)

\* C8: the table never holds two rows under one key, also when two callers
\* both find the key absent and both INSERT: the second INSERT is rejected.
C8_OneRowPerKey ==
    \A i, j \in 1..Len(bundles) : bundles[i].path = bundles[j].path => i = j

\* C8, its case: the last call found its key absent, another call inserted the
\* key meanwhile, and its INSERT was rejected.
C8_Witness ==
    /\ last.op \in LogOps
    /\ last.result = "IntegrityError"
    /\ Len(SelectWherePath(bundles, TruncatePath(last.path))) = 1

\* C9: the usage_count of every row is the number of access-recording calls
\* completed on its key since the row was created, a creating
\* add_unused_bundle not counted.
C9_CountsEveryAccess ==
    \A i \in 1..Len(bundles) :
        bundles[i].usage_count
            = history[bundles[i].path].n - 1 + history[bundles[i].path].init

\* C10: a log_usage call on a path under the cache root that has read its
\* timestamp completes without raising, whatever the other caller does
\* meanwhile.
C10_LogUsageNeverRaises ==
    [][\A p \in Procs :
         ( /\ pc[p] = "write"
           /\ pc'[p] = "idle"
           /\ call[p].op = "log_usage"
           /\ UnderRoot(call[p].path) )
         => last'.result = "ok"]_vars

----------------------------------------------------------------------------
(* Properties of the rows, the queries and delete_entry *)

\* C11: in every step of two interleaving callers, every row whose key the
\* table still holds after the step keeps its place, its path and its
\* creation.
C11_CreationSetOnce ==
    [][LET kept == SelectSeq(bundles, LAMBDA r : Present(bundles', r.path))
       IN  \A i \in 1..Len(kept) :
              /\ bundles'[i].path = kept[i].path
              /\ bundles'[i].creation = kept[i].creation]_vars

\* C11, its case: a row that calls of both kinds of step have updated since it
\* was created, at a later clock value than its creation.
C11_Witness ==
    \E i \in 1..Len(bundles) :
        /\ history[bundles[i].path].n >= 2
        /\ bundles[i].usage_count >= 1
        /\ bundles[i].creation < bundles[i].last_usage
        /\ \E p \in Procs : pc[p] = "write"

\* The thresholds get_unused_bundles is asked with: every clock value, and one
\* below and one above them all.
Thresholds == (0 - 1)..(MaxTime + 1)

AbsolutePath(key) == BundleCacheRoot \o Sep \o key

\* C13: delete_entry returns normally; on a key the table holds it removes the
\* row (get_bundle returns None after it, get_bundle_count is 1 less, the other
\* rows stay); on a key the table does not hold it leaves the table as it was;
\* a second delete_entry of the key changes nothing more.
C13_DeleteEntry ==
    [][LET key == last'.path IN
         (last'.op = "delete_entry" /\ DeleteEntryCall(key))
         => /\ last'.result = "ok"
            /\ IF Present(bundles, key)
               THEN /\ GetBundleCount(bundles') = GetBundleCount(bundles) - 1
                    /\ FindEntry(bundles', key) = <<>>
                    /\ GetBundle(bundles', AbsolutePath(key)) = <<>>
                    /\ \A i \in 1..Len(bundles) :
                          bundles[i].path # key
                          => \E j \in 1..Len(bundles') : bundles'[j] = bundles[i]
               ELSE bundles' = bundles
            /\ DeleteWherePath(bundles', key) = bundles']_vars

\* C13, its case: the last call deleted the entry of a key; the row of the
\* other key is still there.
C13_Witness ==
    /\ last.op = "delete_entry"
    /\ last.path \in Keys
    /\ ~Present(bundles, last.path)
    /\ Len(bundles) = 1
    /\ bundles[1].usage_count = MaxCount

\* C14: get_bundle of a path returns None when _truncate_path yields no key or
\* the table holds no row under the key; otherwise it returns one entry, whose
\* path is the key and whose creation, last_usage and usage_count are those
\* the calls on the key wrote last.
C14_GetBundle ==
    \A path \in Paths :
        LET key == TruncatePath(path)
            got == GetBundle(bundles, path)
        IN  IF ~Truthy(key) THEN got = <<>>
            ELSE IF ~Present(bundles, key) THEN got = <<>>
            ELSE /\ Len(got) = 1
                 /\ got[1].path = key
                 /\ got[1].creation = history[key].t1
                 /\ got[1].last_usage = history[key].tN
                 /\ got[1].usage_count = history[key].n - 1 + history[key].init

\* C14, its case: get_bundle finds an entry written at two clock values, and
\* finds none for another path under the root.
C14_Witness ==
    /\ \E path \in Paths :
          /\ GetBundle(bundles, path) # <<>>
          /\ GetBundle(bundles, path)[1].creation = 0
          /\ GetBundle(bundles, path)[1].last_usage = 1
          /\ GetBundle(bundles, path)[1].usage_count = 1
    /\ \E path \in Paths : UnderRoot(path) /\ GetBundle(bundles, path) = <<>>

----------------------------------------------------------------------------
(* Properties of the timestamp override *)

\* C15 as stated: with an override set that int() cannot convert, a log_usage
\* or add_unused_bundle call raises ValueError whatever path it is given.
C15_BadOverrideRaisesAnyPath ==
    [][(~ClockValid /\ (CallOf("log_usage") \/ CallOf("add_unused_bundle")))
       => last'.result = "ValueError"]_vars

\* C15, amended: with an override set that int() cannot convert, a log_usage
\* or add_unused_bundle call on a path from which _truncate_path yields a key
\* raises ValueError and leaves the table as it was.
C15_BadOverrideRaises ==
    [][( /\ ~ClockValid
         /\ TruncatePath(last'.path) \notin {None, <<>>}
         /\ (CallOf("log_usage") \/ CallOf("add_unused_bundle")) )
       => /\ last'.result = "ValueError"
          /\ bundles' = bundles]_vars

\* C15, its case: an add_unused_bundle call on a stored key has raised
\* ValueError under the override "x".
C15_Witness ==
    /\ last.op = "add_unused_bundle"
    /\ last.result = "ValueError"
    /\ override = <<"x">>
    /\ Present(bundles, TruncatePath(last.path))

\* C16: a log_usage or add_unused_bundle call that writes a row writes the
\* value of the override as its timestamp when the override is a non-empty
\* string of digits, and the live clock when the override is unset or empty:
\* last_usage always, creation as well when the call inserts the row.
C16_OverrideReplacesClock ==
    [][LET key == TruncatePath(last'.path)
           expected == IF override \in {None, <<>>}
                       THEN clock ELSE ParseInt(override)
       IN  ( /\ ClockValid
             /\ key \notin {None, <<>>}
             /\ (CallOf("log_usage") \/ CallOf("add_unused_bundle")) )
           => /\ Present(bundles', key)
              /\ RowOf(bundles', key).last_usage = expected
              /\ ~Present(bundles, key)
                    => RowOf(bundles', key).creation = expected]_vars

\* C16, its case: a call has inserted a row under the override "0", with the
\* live clock at another value.
C16_Witness ==
    /\ last.op \in LogOps
    /\ last.result = "ok"
    /\ override = <<"0">>
    /\ clock # 0
    /\ Present(bundles, TruncatePath(last.path))
    /\ history[TruncatePath(last.path)].n = 1
    /\ RowOf(bundles, TruncatePath(last.path)).last_usage = 0
    /\ RowOf(bundles, TruncatePath(last.path)).creation = 0

----------------------------------------------------------------------------
(* Properties of construction (SpecLife) *)

ConfigurationError == "BundleCacheUsageInvalidBundleCacheRootError"

\* The step is a construction.
Constructs == last'.op = "__init__" /\ Construct

\* C17: a construction with the root unset, missing or not a directory raises
\* BundleCacheUsageInvalidBundleCacheRootError and creates neither an instance
\* nor a table; no call other than the construction raises that error.
C17_InvalidRootRaises ==
    [][/\ (Constructs /\ root # "dir")
          => /\ last'.result = ConfigurationError
             /\ db' = db
             /\ tables' = tables
       /\ last'.result = ConfigurationError => last'.op = "__init__"]_vars

\* C18: a construction over a database file that holds the table raises
\* nothing, leaves the one table, and leaves every row as it was.
C18_SchemaIdempotent ==
    [][(Constructs /\ root = "dir" /\ tables = <<"bundles">>)
       => /\ last'.result = "ok"
          /\ db'
          /\ tables' = <<"bundles">>
          /\ bundles' = bundles]_vars

\* C18, its case: the last call was a construction that raised nothing, over a
\* table with a row in it.
C18_Witness ==
    /\ last.op = "__init__"
    /\ last.result = "ok"
    /\ tables = <<"bundles">>
    /\ Len(bundles) = 1
    /\ bundles[1].usage_count = 1

----------------------------------------------------------------------------
(* Properties of the stored keys (SpecPath) *)

\* What follows the root and the separator in a path under the root.
RelativePart(path) ==
    SubSeq(path, Len(BundleCacheRoot) + Len(Sep) + 1, Len(path))

\* C19: for a path made of the cache root, a separator and a relative path
\* that is not empty and does not start with a separator, _truncate_path
\* returns that relative path, and a call on the empty table stores it as the
\* key.
C19_TruncateReturnsRelative ==
    (last.op \in LogOps /\ UnderRoot(last.path))
    => /\ TruncatePath(last.path) = RelativePart(last.path)
       /\ Len(bundles) = 1
       /\ bundles[1].path = RelativePart(last.path)

\* C20: every stored path is a non-empty string that begins neither with a
\* separator nor with the cache root.
C20_StoredKeysRelative ==
    \A i \in 1..Len(bundles) :
        /\ bundles[i].path # None
        /\ bundles[i].path # <<>>
        /\ ~StartsWith(bundles[i].path, Sep)
        /\ ~StartsWith(bundles[i].path, BundleCacheRoot)

----------------------------------------------------------------------------
(* Properties of eviction and of the calls' frame *)

\* delete_entry of each entry of a list, in order.
RECURSIVE DeleteEach(_, _)
DeleteEach(table, entries) ==
    IF entries = <<>> THEN table
    ELSE DeleteEach(DeleteWherePath(table, Head(entries).path), Tail(entries))

\* The table once get_unused_bundles(t) has been asked and every entry it
\* returned deleted, no other call in between.
Evicted(table, t) == DeleteEach(table, GetUnusedBundles(table, t))

\* C21: for every threshold t, after get_unused_bundles(t) and delete_entry of
\* every entry returned, get_unused_bundles(t) is empty, no row with
\* last_usage <= t is left, and the rows with last_usage > t are all there, as
\* they were and in their order.
C21_EvictionProtocol ==
    \A t \in Thresholds :
        LET after == Evicted(bundles, t)
        IN  /\ GetUnusedBundles(after, t) = <<>>
            /\ \A i \in 1..Len(after) : after[i].last_usage > t
            /\ after = SelectSeq(bundles, LAMBDA r : r.last_usage > t)

\* C21, its case: a table of two rows of which eviction at some threshold
\* deletes one and keeps the other.
C21_Witness ==
    \E t \in Thresholds :
        /\ Len(bundles) = 2
        /\ Len(Evicted(bundles, t)) = 1
        /\ Evicted(bundles, t)[1].usage_count = MaxCount

\* C22: once a call on a path under the cache root has stored its entry in the
\* empty table, get_bundle of every other path under the root returns None:
\* no two paths under the root have the same key.
C22_DistinctPathsDistinctKeys ==
    (last.op \in LogOps /\ UnderRoot(last.path) /\ bundles # <<>>)
    => \A other \in AllPaths :
          (UnderRoot(other) /\ other # last.path)
          => /\ TruncatePath(other) # TruncatePath(last.path)
             /\ GetBundle(bundles, other) = <<>>

----------------------------------------------------------------------------
(* Properties of two callers and delete_entry interleaving (Spec) *)

\* C23: a log_usage or add_unused_bundle call on a path under the cache root
\* that returns normally has written one row: its UPDATE has matched the row
\* of its key, or its INSERT has added one, whatever the other caller did
\* between its SELECT and its write.
C23_ReturnedCallHasWritten ==
    [][\A p \in Procs :
         ( /\ pc[p] = "write"
           /\ pc'[p] = "idle"
           /\ UnderRoot(call[p].path)
           /\ last'.result = "ok" )
         => LET key == TruncatePath(call[p].path)
            IN  /\ Present(bundles', key)
                /\ RowOf(bundles', key).last_usage = now[p]
                /\ IF entry[p] = <<>>
                   THEN Len(bundles') = Len(bundles) + 1
                   ELSE /\ Present(bundles, key)
                        /\ RowOf(bundles', key).usage_count
                              = entry[p][1].usage_count + 1]_vars

\* C24: in every step of two interleaving callers, a row whose key the table
\* holds before and after the step has a usage_count no less than before.
C24_UsageCountNeverDecreases ==
    [][\A i \in 1..Len(bundles) :
         Present(bundles', bundles[i].path)
         => RowOf(bundles', bundles[i].path).usage_count
               >= bundles[i].usage_count]_vars

----------------------------------------------------------------------------
(* Properties of the frame of the calls run one at a time (SpecSeq) *)

\* The rows of the table under keys other than key, in their order.
OtherRows(table, key) == SelectSeq(table, LAMBDA r : r.path # key)

\* C25: a log_usage, add_unused_bundle or delete_entry call acting on a key
\* leaves the rows under every other key as they were, all four columns, and
\* neither adds nor removes a row under another key.
C25_OtherKeysUntouched ==
    [][/\ (CallOf("log_usage") \/ CallOf("add_unused_bundle"))
          => OtherRows(bundles', TruncatePath(last'.path))
                = OtherRows(bundles, TruncatePath(last'.path))
       /\ (last'.op = "delete_entry" /\ DeleteEntryCall(last'.path))
          => OtherRows(bundles', last'.path) = OtherRows(bundles, last'.path)]_vars

\* C25, its case: the last call updated the row of its key at another clock
\* value than the one the row under the other key was written at.
C25_Witness ==
    /\ last.op \in LogOps
    /\ last.result = "ok"
    /\ Len(bundles) = 2
    /\ Present(bundles, TruncatePath(last.path))
    /\ history[TruncatePath(last.path)].n = 2
    /\ \E i \in 1..Len(bundles) :
          /\ bundles[i].path # TruncatePath(last.path)
          /\ bundles[i].usage_count = 0
          /\ bundles[i].last_usage
                # RowOf(bundles, TruncatePath(last.path)).last_usage

\* C27: a log_usage or add_unused_bundle call that raises ValueError leaves
\* the table as it was: no row added, no column of any row changed.
C27_ValueErrorLeavesLedger ==
    [][( /\ last'.result = "ValueError"
         /\ (CallOf("log_usage") \/ CallOf("add_unused_bundle")) )
       => /\ bundles' = bundles
          /\ GetBundleCount(bundles') = GetBundleCount(bundles)
          /\ GetBundle(bundles', last'.path) = GetBundle(bundles, last'.path)]_vars

\* C27, its case: a log_usage call on a key the table does not hold has raised
\* ValueError, the row of the other key being there.
C27_Witness ==
    /\ last.op = "log_usage"
    /\ last.result = "ValueError"
    /\ ~Present(bundles, TruncatePath(last.path))
    /\ Len(bundles) = 1
    /\ bundles[1].usage_count = 1

----------------------------------------------------------------------------
(* Properties of the queries (SpecLife) *)

QueryOps == {"get_bundle", "get_bundle_count", "get_unused_bundles"}

\* C26: a get_bundle, get_bundle_count or get_unused_bundles call leaves the
\* table as it was, every row and every column; and what get_bundle_count
\* returns is the number of stored entries, before the call and after it.
C26_QueriesReadOnly ==
    [][( /\ last'.op \in QueryOps
         /\ (GetBundleLife \/ GetBundleCountLife \/ GetUnusedBundlesLife) )
       => /\ bundles' = bundles
          /\ GetBundleCount(bundles)
                = Cardinality({ bundles[i].path : i \in 1..Len(bundles) })
          /\ GetBundleCount(bundles')
                = Cardinality({ bundles'[i].path : i \in 1..Len(bundles') })
          /\ GetBundleCount(bundles') = GetBundleCount(bundles)]_vars

\* C26, its case: the last call was a get_bundle that found the entry of its
\* path, written twice, and the row is there after it.
C26_Witness ==
    /\ last.op = "get_bundle"
    /\ Len(bundles) = 1
    /\ GetBundle(bundles, last.path) # <<>>
    /\ GetBundle(bundles, last.path)[1].usage_count = MaxCount

====
